---------------------------- MODULE Spec2Model ----------------------------
(***************************************************************************)
(* Model of src/webhook.py: the Scalr -> ServiceNow webhook relay.         *)
(*                                                                         *)
(* Texts (the request body, the Date header) are sequences of tokens, each *)
(* token a TLA+ string.  A JSON text is the token sequence                 *)
(*   "{" key value key value ... "}"                                       *)
(* (colons, commas and quotes elided; a value is a string token or a       *)
(* nested object).  A date text is an optional weekday token, the decimal  *)
(* digits of the instant in seconds and an optional zone token.            *)
(* The program is Python 2 code (str keys and str + unicode concatenation  *)
(* in hmac.new); the model follows its Python 2 behaviour.                 *)
(***************************************************************************)
EXTENDS Integers, Sequences, FiniteSets, TLC

VARIABLES
    now,        \* the wall clock read by validate_request (seconds)
    store,      \* the ServiceNow table: the records in the order the store returns them
    pc,         \* per handling unit: where its webhook_listener call stands
    req,        \* per handling unit: the request being handled
    data,       \* per handling unit: update_host's data (the parsed "data" object)
    event,      \* per handling unit: the event name
    status,     \* per handling unit: update_server's status
    server,     \* per handling unit: update_server's server (the lookup's result)
    valid,      \* per handling unit: how validate_request ended for the request
    at,         \* per handling unit: the clock value the request was validated at
    response,   \* per handling unit: the HTTP response the sender sees
    calls,      \* per handling unit: the store calls issued for the current request
    ticket,     \* per handling unit: the arrival number of the current request
    received,   \* number of requests received so far
    seen        \* history kept for the properties: the statuses notified per external id

vars == <<now, store, pc, req, data, event, status, server, valid, at, response,
          calls, ticket, received, seen>>

-----------------------------------------------------------------------------
(* Bounds and program constants *)

\* delta < 300 (validate_request)
Window == 300

\* number of requests the sender delivers in one run, and in one run over
\* the event names
MaxRequests == 3
MaxEventRequests == 2

\* the clock is sampled every ClockStep seconds up to MaxNow
ClockStep == Window
MaxNow == 4 * Window

None == [t |-> "none"]
Str(s) == [t |-> "str", s |-> s]
Obj(m) == [t |-> "obj", m |-> m]
IsStr(v) == v.t = "str"
IsObj(v) == v.t = "obj"

EmptyMap == [k \in {} |-> None]

-----------------------------------------------------------------------------
(* json.loads *)

ParseFail == [ok |-> FALSE, val |-> EmptyMap, next |-> 0]

Structural == {"{", "}", " "}

\* The members of an object from position i on, up to its closing brace.
\* A repeated key keeps the last value, as Python's dict does.
RECURSIVE ParseMembers(_, _, _)
ParseMembers(toks, i, acc) ==
    IF i > Len(toks) THEN ParseFail
    ELSE IF toks[i] = "}" THEN [ok |-> TRUE, val |-> acc, next |-> i + 1]
    ELSE IF toks[i] \in Structural THEN ParseFail
    ELSE IF i + 1 > Len(toks) THEN ParseFail
    ELSE IF toks[i + 1] = "{" THEN
        LET sub == ParseMembers(toks, i + 2, EmptyMap)
        IN  IF sub.ok
            THEN ParseMembers(toks, sub.next, (toks[i] :> Obj(sub.val)) @@ acc)
            ELSE ParseFail
    ELSE IF toks[i + 1] \in Structural THEN ParseFail
    ELSE ParseMembers(toks, i + 2, (toks[i] :> Str(toks[i + 1])) @@ acc)

RECURSIVE SkipSpace(_, _)
SkipSpace(toks, i) ==
    IF i <= Len(toks) /\ toks[i] = " " THEN SkipSpace(toks, i + 1) ELSE i

\* json.loads(request.data): the decoded object, or ok = FALSE for the
\* ValueError json.loads raises on a text that is not a JSON document.
JsonLoads(toks) ==
    LET i == SkipSpace(toks, 1)
    IN  IF i > Len(toks) \/ toks[i] # "{" THEN [ok |-> FALSE, val |-> EmptyMap]
        ELSE LET p == ParseMembers(toks, i + 1, EmptyMap)
             IN  IF p.ok /\ SkipSpace(toks, p.next) > Len(toks)
                 THEN [ok |-> TRUE, val |-> p.val]
                 ELSE [ok |-> FALSE, val |-> EmptyMap]

-----------------------------------------------------------------------------
(* dateutil.parser.parse *)

Digits == <<"0", "1", "2", "3", "4", "5", "6", "7", "8", "9">>
DigitSet == {Digits[i] : i \in 1..10}
DigitVal(c) == (CHOOSE i \in 1..10 : Digits[i] = c) - 1

Weekdays == {"Fri,"}
Zones == {"GMT"}

\* The lenient parser: white space and a weekday name are skipped, the
\* digits give the instant, a zone name makes the result timezone-aware.
\* Any other token, or no digit at all, raises ValueError (ok = FALSE).
RECURSIVE ParseDateFrom(_, _, _)
ParseDateFrom(toks, i, acc) ==
    IF i > Len(toks) THEN acc
    ELSE LET c == toks[i]
         IN  IF c = " " \/ c \in Weekdays THEN ParseDateFrom(toks, i + 1, acc)
             ELSE IF c \in DigitSet THEN
                 ParseDateFrom(toks, i + 1,
                     [acc EXCEPT !.secs = 10 * @ + DigitVal(c), !.seen = TRUE])
             ELSE IF c \in Zones THEN
                 ParseDateFrom(toks, i + 1, [acc EXCEPT !.aware = TRUE])
             ELSE [acc EXCEPT !.ok = FALSE]

DateutilParse(toks) ==
    LET r == ParseDateFrom(toks, 1,
                 [ok |-> TRUE, seen |-> FALSE, aware |-> FALSE, secs |-> 0])
    IN  [ok |-> r.ok /\ r.seen, aware |-> r.aware, secs |-> r.secs]

-----------------------------------------------------------------------------
(* The sender (Scalr): how a notification becomes a signed request *)

\* SCALR_SIGNING_KEY, and a key the sender of a forged request might use
SigningKey == "signing-key"
OtherKey == "other-key"

\* hmac.new(key, msg, sha1).digest(): a keyed digest without collisions
\* (two digests are equal exactly when key and message are).
Hmac(key, msg) == [alg |-> "hmac-sha1", key |-> key, msg |-> msg]

\* binascii.hexlify: the lower-case hex text of a digest
Hexlify(digest) == [hex |-> digest]

RECURSIVE ToDigits(_)
ToDigits(n) ==
    IF n < 10 THEN <<Digits[n + 1]>>
    ELSE ToDigits(n \div 10) \o <<Digits[(n % 10) + 1]>>

\* the Date header the sender writes for instant n
DateText(n) == <<"Fri,">> \o ToDigits(n) \o <<"GMT">>

\* the keys of the data object, in the order the sender serialises them
DataKeys ==
    <<"SCALR_SERVER_ID", "SCALR_FARM_ID", "SCALR_IS_SUSPEND", "SCALR_ENV_ID",
      "SCALR_ACCOUNT_ID", "SCALR_CLOUD_PLATFORM", "SCALR_CLOUD_LOCATION",
      "SCALR_FARM_ROLE_ALIAS", "SCALR_FARM_ROLE_ID", "SCALR_SERVER_HOSTNAME",
      "SCALR_EXTERNAL_IP", "SCALR_INTERNAL_IP", "SCALR_SERVER_TYPE",
      "SCALR_FARM_NAME">>

RECURSIVE DumpMembers(_, _)
DumpMembers(d, i) ==
    IF i > Len(DataKeys) THEN <<>>
    ELSE (IF DataKeys[i] \in DOMAIN d THEN <<DataKeys[i], d[DataKeys[i]]>> ELSE <<>>)
         \o DumpMembers(d, i + 1)

\* the JSON text of the envelope {eventName, data}; d maps keys to strings
EnvelopeText(ev, d) ==
    <<"{", "eventName", ev, "data", "{">> \o DumpMembers(d, 1) \o <<"}", "}">>

Request(headers, body) == [headers |-> headers, body |-> body]

SignatureOf(key, body, date) == Hexlify(Hmac(key, body \o date))

\* the request the sender emits for (body, date): both headers, signed with key
Signed(key, body, date) ==
    Request(("X-Signature" :> SignatureOf(key, body, date)) @@ ("Date" :> date), body)

-----------------------------------------------------------------------------
(* validate_request *)

Abs(x) == IF x < 0 THEN -x ELSE x

\* the message the signature is computed over: body + date
\* faulty variant: the date left out of the signed message
SignedMessageBodyOnly(body, date) == body
SignedMessage(body, date) == body \o date

\* return delta < 300
\* faulty variant: delta <= 300
WithinWindowInclusive(delta) == delta <= Window
WithinWindow(delta) == delta < Window

\* delta = abs((now - date).total_seconds())
\* faulty variant: the age without abs
DeltaAgeOnly(t, secs) == t - secs
Delta(t, secs) == Abs(t - secs)

\* expected_signature != request.headers['X-Signature'], negated
\* faulty variant: the comparison dropped
SignatureAlwaysMatches(expected, given) == TRUE
SignatureMatches(expected, given) == expected = given

\* ret: the value returned; exc: an exception was raised instead
\* (ValueError from dateutil on an unparsable date, TypeError on subtracting
\* a timezone-naive date from the timezone-aware now).
Returned(b) == [ret |-> b, exc |-> FALSE]
Raised == [ret |-> FALSE, exc |-> TRUE]

validate_request(request, t) ==
    IF "X-Signature" \notin DOMAIN request.headers \/ "Date" \notin DOMAIN request.headers
    THEN Returned(FALSE)
    ELSE LET date == request.headers["Date"]
             body == request.body
             expected_signature == Hexlify(Hmac(SigningKey, SignedMessage(body, date)))
         IN  IF ~SignatureMatches(expected_signature, request.headers["X-Signature"])
             THEN Returned(FALSE)
             ELSE LET parsed == DateutilParse(date)
                  IN  IF ~parsed.ok \/ ~parsed.aware THEN Raised
                      ELSE Returned(WithinWindow(Delta(t, parsed.secs)))

-----------------------------------------------------------------------------
(* status_from_event, server_object *)

RecognizedEvents ==
    {"BeforeInstanceLaunch", "HostInit", "BeforeHostUp", "HostUp", "BeforeHostTerminate",
     "HostDown", "IPAddressChanged", "ResumeComplete", "HostInitFailed", "ServiceNowEvent"}

StatusTable ==
    ("BeforeInstanceLaunch" :> "provisioning") @@
    ("HostInit" :> "initializing") @@
    ("BeforeHostUp" :> "configuring") @@
    ("HostUp" :> "running") @@
    ("BeforeHostTerminate" :> "deprovisioning") @@
    ("HostDown" :> "terminated") @@
    ("ResumeComplete" :> "running") @@
    ("HostInitFailed" :> "failed") @@
    ("ServiceNowEvent" :> "running")

\* {...}.get(event, '')
status_from_event(ev) == IF ev \in DOMAIN StatusTable THEN StatusTable[ev] ELSE ""

\* record field -> data key, as server_object reads them
FieldSource ==
    ("u_id" :> "SCALR_SERVER_ID") @@
    ("u_environment_id" :> "SCALR_ENV_ID") @@
    ("u_account_id" :> "SCALR_ACCOUNT_ID") @@
    ("u_cloud_platform" :> "SCALR_CLOUD_PLATFORM") @@
    ("u_cloud_location" :> "SCALR_CLOUD_LOCATION") @@
    ("u_farm_role_alias" :> "SCALR_FARM_ROLE_ALIAS") @@
    ("u_farm_role_id" :> "SCALR_FARM_ROLE_ID") @@
    ("u_hostname" :> "SCALR_SERVER_HOSTNAME") @@
    ("u_public_ip" :> "SCALR_EXTERNAL_IP") @@
    ("u_private_ip" :> "SCALR_INTERNAL_IP") @@
    ("u_instance_type" :> "SCALR_SERVER_TYPE") @@
    ("u_farm" :> "SCALR_FARM_NAME")

\* server_object raises KeyError unless every key it reads is present
\* faulty variant: absent keys read without error (data.get)
ServerObjectDefinedAlways(d) == TRUE
ServerObjectDefined(d) == \A f \in DOMAIN FieldSource : FieldSource[f] \in DOMAIN d

\* faulty variant: the private address is read from the public one's key
server_object_swapped(d) ==
    [f \in DOMAIN FieldSource |->
        IF f = "u_private_ip" THEN d["SCALR_EXTERNAL_IP"] ELSE d[FieldSource[f]]]
\* the dict literal of lines 97-110; it has a value only when
\* ServerObjectDefined, the None under an absent key is never sent
server_object(d) ==
    [f \in DOMAIN FieldSource |->
        IF FieldSource[f] \in DOMAIN d THEN d[FieldSource[f]] ELSE None]

\* a mapping without key k (del body[k])
Without(m, k) == [f \in DOMAIN m \ {k} |-> m[f]]

-----------------------------------------------------------------------------
(* webhook_listener, update_host, update_server up to the first store call *)

Handlers == {"h1", "h2"}

Reply(code, body) == [code |-> code, body |-> body]
NoReply == Reply(0, "")
\* abort(code) answers with the framework's error page; an uncaught
\* exception is answered by the framework with 500
Abort(code) == Reply(code, "error page")
ServerError == Reply(500, "error page")

\* what a handling unit holds when webhook_listener returned before update_server
Stop(reply) == [go |-> FALSE, reply |-> reply, event |-> "", data |-> EmptyMap, status |-> ""]
Go(ev, d, st) == [go |-> TRUE, reply |-> NoReply, event |-> ev, data |-> d, status |-> st]

\* the suspend flag is read only for HostDown
NeedsSuspendFlag(ev) == ev = "HostDown"

\* update_server, lines 66-72: the status the store write will carry
\* faulty variant: the suspend flag ignored
StatusIgnoringSuspend(ev, d) == status_from_event(ev)
StatusFor(ev, d) ==
    IF NeedsSuspendFlag(ev) /\ d["SCALR_IS_SUSPEND"] = Str("1")
    THEN "suspended"
    ELSE status_from_event(ev)

\* update_host and update_server up to the lookup: the subscripts
\* data['SCALR_FARM_ID'], data['SCALR_SERVER_ID'] and, for HostDown,
\* data['SCALR_IS_SUSPEND'] raise (TypeError when data is no object,
\* KeyError when the key is absent)
update_host(d, ev) ==
    IF ~IsObj(d) THEN Stop(ServerError)
    ELSE IF "SCALR_FARM_ID" \notin DOMAIN d.m THEN Stop(ServerError)
    ELSE IF "SCALR_SERVER_ID" \notin DOMAIN d.m THEN Stop(ServerError)
    ELSE IF NeedsSuspendFlag(ev) /\ "SCALR_IS_SUSPEND" \notin DOMAIN d.m THEN Stop(ServerError)
    ELSE Go(ev, d.m, StatusFor(ev, d.m))

\* faulty variant: every event name handled
IsRecognizedAlways(ev) == TRUE
IsRecognized(ev) == ev \in RecognizedEvents

\* the envelope check of lines 44-46
\* faulty variant: only eventName checked
EnvelopeLacksEventName(j) == "eventName" \notin DOMAIN j
EnvelopeInvalid(j) == "eventName" \notin DOMAIN j \/ "data" \notin DOMAIN j

\* what follows a request that failed validate_request: abort(403)
Reject == Abort(403)

webhook_listener(request, t) ==
    LET v == validate_request(request, t)
    IN  IF v.exc THEN Stop(ServerError)
        ELSE IF ~v.ret THEN Stop(Reject)
        ELSE LET j == JsonLoads(request.body)
             IN  IF ~j.ok THEN Stop(ServerError)
                 ELSE IF EnvelopeInvalid(j.val) THEN Stop(Abort(404))
                 \* data['eventName'] raises KeyError on a missing key
                 ELSE IF "eventName" \notin DOMAIN j.val THEN Stop(ServerError)
                 ELSE LET ev == j.val["eventName"]
                      IN  IF IsStr(ev) /\ IsRecognized(ev.s)
                          THEN \* and so does data['data']
                               IF "data" \notin DOMAIN j.val THEN Stop(ServerError)
                               ELSE update_host(j.val["data"], ev.s)
                          ELSE Stop(Reply(200, ""))

-----------------------------------------------------------------------------
(* The store (ServiceNow table API) *)

\* GET ?u_id=<id>: the records whose u_id is id, in the store's order
\* faulty variant: the query filters on another field
MatchesOtherField(id) == SelectSeq(store, LAMBDA rec : rec["u_hostname"] = id)
Matches(id) == SelectSeq(store, LAMBDA rec : rec["u_id"] = id)

\* snow_get_server_by_id: None, or the first record of the result
\* faulty variant: the last record of the result
LastOrNone(result) == IF Len(result) = 0 THEN None ELSE result[Len(result)]
FirstOrNone(result) == IF Len(result) = 0 THEN None ELSE result[1]
\* faulty variant: the lookup never finds a record
snow_get_server_by_id_none(id) == None
snow_get_server_by_id(id) == FirstOrNone(Matches(id))

\* POST: the store adds the record under a sys_id of its own
\* faulty variant: an insert-if-absent store
InsertedUnlessPresent(body) ==
    IF \E i \in 1..Len(store) : store[i]["u_id"] = body["u_id"]
    THEN store
    ELSE Append(store, body @@ ("sys_id" :> Len(store) + 1))
Inserted(body) == Append(store, body @@ ("sys_id" :> Len(store) + 1))

\* PATCH /<sys_id>: the fields of body replace those of the record
\* faulty variant: the fields of every record replaced
PatchedEvery(sysid, body) ==
    [i \in 1..Len(store) |->
        [f \in DOMAIN store[i] |-> IF f \in DOMAIN body THEN body[f] ELSE store[i][f]]]
Patched(sysid, body) ==
    [i \in 1..Len(store) |->
        IF store[i]["sys_id"] = sysid
        THEN [f \in DOMAIN store[i] |-> IF f \in DOMAIN body THEN body[f] ELSE store[i][f]]
        ELSE store[i]]

\* snow_create_server's body
CreateBody(d, st) == ("u_status" :> Str(st)) @@ server_object(d)

\* snow_update_server's body
\* faulty variant: u_status always sent
UpdateBodyAlwaysStatus(d, st) == ("u_status" :> Str(st)) @@ Without(server_object(d), "u_id")
\* faulty variant: u_status never sent
UpdateBodyNeverStatus(d, st) == Without(server_object(d), "u_id")
\* faulty variant: u_id kept in the update
UpdateBodyKeepId(d, st) ==
    IF st # "" THEN ("u_status" :> Str(st)) @@ server_object(d) ELSE server_object(d)
UpdateBody(d, st) ==
    LET body == Without(server_object(d), "u_id")
    IN  IF st # "" THEN ("u_status" :> Str(st)) @@ body ELSE body

-----------------------------------------------------------------------------
(* The history kept for the properties: what the sender has notified *)

TenEvents ==
    {"BeforeInstanceLaunch", "HostInit", "BeforeHostUp", "HostUp", "BeforeHostTerminate",
     "HostDown", "ResumeComplete", "HostInitFailed", "ServiceNowEvent", "IPAddressChanged"}

\* the classifier table as the specification states it
MappedStatus(ev) ==
    CASE ev = "BeforeInstanceLaunch" -> "provisioning"
      [] ev = "HostInit" -> "initializing"
      [] ev = "BeforeHostUp" -> "configuring"
      [] ev = "HostUp" -> "running"
      [] ev = "BeforeHostTerminate" -> "deprovisioning"
      [] ev = "HostDown" -> "terminated"
      [] ev = "ResumeComplete" -> "running"
      [] ev = "HostInitFailed" -> "failed"
      [] ev = "ServiceNowEvent" -> "running"
      [] ev = "IPAddressChanged" -> ""

\* env, the decoded body of an authenticated request, is a notification: a
\* recognized event and its data object
IsNotification(env) ==
    /\ env.ok
    /\ {"eventName", "data"} \subseteq DOMAIN env.val
    /\ env.val["eventName"].s \in TenEvents
    /\ IsObj(env.val["data"])
EventOf(env) == env.val["eventName"].s
DataOf(env) == env.val["data"].m
FlagAbsent(env) == "SCALR_IS_SUSPEND" \notin DOMAIN DataOf(env)
FlagIs(env, v) == ~FlagAbsent(env) /\ DataOf(env)["SCALR_IS_SUSPEND"] = Str(v)

\* the status a notification stands for: the table's, and suspended for a
\* HostDown with the suspend flag "1"; a HostDown without the flag has none
HasClassification(env) ==
    /\ IsNotification(env)
    /\ "SCALR_SERVER_ID" \in DOMAIN DataOf(env)
    /\ ~(EventOf(env) = "HostDown" /\ FlagAbsent(env))
Classified(env) ==
    IF EventOf(env) = "HostDown" /\ FlagIs(env, "1")
    THEN "suspended"
    ELSE MappedStatus(EventOf(env))

\* per external id, the status of the most recent notification that is not
\* IPAddressChanged, "" while there was none: m after notification env
Noted(m, env) ==
    LET id == DataOf(env)["SCALR_SERVER_ID"]
    IN  IF EventOf(env) = "IPAddressChanged"
        THEN (IF id \in DOMAIN m THEN m ELSE (id :> "") @@ m)
        ELSE (id :> Classified(env)) @@ m

-----------------------------------------------------------------------------
(* Actions *)

InitAt(t) ==
    /\ now = t
    /\ store = <<>>
    /\ pc = [h \in Handlers |-> "idle"]
    /\ req = [h \in Handlers |-> Request(EmptyMap, <<>>)]
    /\ data = [h \in Handlers |-> EmptyMap]
    /\ event = [h \in Handlers |-> ""]
    /\ status = [h \in Handlers |-> ""]
    /\ server = [h \in Handlers |-> None]
    /\ valid = [h \in Handlers |-> "none"]
    /\ at = [h \in Handlers |-> 0]
    /\ response = [h \in Handlers |-> NoReply]
    /\ calls = [h \in Handlers |-> <<>>]
    /\ ticket = [h \in Handlers |-> 0]
    /\ received = 0
    /\ seen = [latest |-> EmptyMap, written |-> EmptyMap]

Outcome(v) == IF v.exc THEN "raised" ELSE IF v.ret THEN "true" ELSE "false"

\* A request arrives at handling unit h: webhook_listener runs up to its
\* return, or up to update_server's lookup.
Receive(h, r) ==
    /\ pc[h] \in {"idle", "done"}
    /\ received < MaxRequests
    /\ LET out == webhook_listener(r, now)
       IN  /\ pc' = [pc EXCEPT ![h] = IF out.go THEN "lookup" ELSE "done"]
           /\ response' = [response EXCEPT ![h] = out.reply]
           /\ event' = [event EXCEPT ![h] = out.event]
           /\ data' = [data EXCEPT ![h] = out.data]
           /\ status' = [status EXCEPT ![h] = out.status]
    /\ valid' = [valid EXCEPT ![h] = Outcome(validate_request(r, now))]
    /\ at' = [at EXCEPT ![h] = now]
    /\ req' = [req EXCEPT ![h] = r]
    /\ server' = [server EXCEPT ![h] = None]
    /\ calls' = [calls EXCEPT ![h] = <<>>]
    /\ received' = received + 1
    /\ ticket' = [ticket EXCEPT ![h] = received + 1]
    /\ UNCHANGED <<now, store>>
    /\ LET env == JsonLoads(r.body)
       IN  seen' = IF Outcome(validate_request(r, now)) = "true" /\ HasClassification(env)
                   THEN [seen EXCEPT !.latest = Noted(@, env)]
                   ELSE seen

\* line 74: the lookup round trip
Lookup(h) ==
    /\ pc[h] = "lookup"
    /\ LET id == data[h]["SCALR_SERVER_ID"]
       IN  /\ server' = [server EXCEPT ![h] = snow_get_server_by_id(id)]
           /\ calls' = [calls EXCEPT ![h] =
                  Append(@, [op |-> "get", id |-> id, found |-> Len(Matches(id))])]
    /\ pc' = [pc EXCEPT ![h] = "write"]
    /\ UNCHANGED <<now, store, req, data, event, status, response, valid, at, ticket, received, seen>>

\* the lookup fails (ConnectionError, or an answer without 'result'): the
\* exception is not caught
LookupFails(h) ==
    /\ pc[h] = "lookup"
    /\ calls' = [calls EXCEPT ![h] =
           Append(@, [op |-> "get", id |-> data[h]["SCALR_SERVER_ID"], found |-> -1])]
    /\ pc' = [pc EXCEPT ![h] = "done"]
    /\ response' = [response EXCEPT ![h] = ServerError]
    /\ UNCHANGED <<now, store, req, data, event, status, server, valid, at, ticket, received, seen>>

\* server_object raises KeyError in snow_create_server / snow_update_server
\* before the request to the store is made
MappingFails(h) ==
    /\ pc[h] = "write"
    /\ ~ServerObjectDefined(data[h])
    /\ pc' = [pc EXCEPT ![h] = "done"]
    /\ response' = [response EXCEPT ![h] = ServerError]
    /\ UNCHANGED <<now, store, req, data, event, status, server, calls, valid, at, ticket, received, seen>>

\* lines 75-77 and snow_create_server
Create(h) ==
    /\ pc[h] = "write"
    /\ server[h] = None
    /\ ServerObjectDefined(data[h])
    /\ LET body == CreateBody(data[h], status[h])
       IN  /\ store' = Inserted(body)
           /\ calls' = [calls EXCEPT ![h] =
                  Append(@, [op |-> "post", sys_id |-> Len(store) + 1, body |-> body])]
    /\ pc' = [pc EXCEPT ![h] = "done"]
    /\ response' = [response EXCEPT ![h] = Reply(200, "Ok")]
    /\ UNCHANGED <<now, req, data, event, status, server, valid, at, ticket, received>>
    /\ seen' = [seen EXCEPT !.written = Noted(@, JsonLoads(req[h].body))]

\* lines 78-80 and snow_update_server
Update(h) ==
    /\ pc[h] = "write"
    /\ server[h] # None
    /\ ServerObjectDefined(data[h])
    /\ LET body == UpdateBody(data[h], status[h])
       IN  /\ store' = Patched(server[h]["sys_id"], body)
           /\ calls' = [calls EXCEPT ![h] =
                  Append(@, [op |-> "patch", sys_id |-> server[h]["sys_id"], body |-> body])]
    /\ pc' = [pc EXCEPT ![h] = "done"]
    /\ response' = [response EXCEPT ![h] = Reply(200, "Ok")]
    /\ UNCHANGED <<now, req, data, event, status, server, valid, at, ticket, received>>
    /\ seen' = [seen EXCEPT !.written = Noted(@, JsonLoads(req[h].body))]

\* the write fails at the store: the exception is not caught, the store is
\* left as it was
WriteFails(h) ==
    /\ pc[h] = "write"
    /\ ServerObjectDefined(data[h])
    /\ calls' = [calls EXCEPT ![h] =
           Append(@, [op |-> IF server[h] = None THEN "post-failed" ELSE "patch-failed",
                      sys_id |-> 0, body |-> EmptyMap])]
    /\ pc' = [pc EXCEPT ![h] = "done"]
    /\ response' = [response EXCEPT ![h] = ServerError]
    /\ UNCHANGED <<now, store, req, data, event, status, server, valid, at, ticket, received, seen>>

\* time passes
Tick ==
    /\ now + ClockStep <= MaxNow
    /\ now' = now + ClockStep
    /\ UNCHANGED <<store, pc, req, data, event, status, server, valid, at, response,
                   calls, ticket, received, seen>>

-----------------------------------------------------------------------------
(* The requests the sender, or somebody replaying its requests, delivers *)

\* the descriptive values of a server at two moments of its life, a and b:
\* no value occurs under two keys, and every value differs between a and b
Described ==
    [a |-> [SCALR_ENV_ID |-> "env-1", SCALR_ACCOUNT_ID |-> "acct-1",
            SCALR_CLOUD_PLATFORM |-> "ec2", SCALR_CLOUD_LOCATION |-> "us-east-1",
            SCALR_FARM_ROLE_ALIAS |-> "web", SCALR_FARM_ROLE_ID |-> "role-1",
            SCALR_SERVER_HOSTNAME |-> "host-a", SCALR_EXTERNAL_IP |-> "198.51.100.1",
            SCALR_INTERNAL_IP |-> "10.0.0.1", SCALR_SERVER_TYPE |-> "m1.small",
            SCALR_FARM_NAME |-> "farm-1"],
     b |-> [SCALR_ENV_ID |-> "env-2", SCALR_ACCOUNT_ID |-> "acct-2",
            SCALR_CLOUD_PLATFORM |-> "gce", SCALR_CLOUD_LOCATION |-> "europe-west1",
            SCALR_FARM_ROLE_ALIAS |-> "db", SCALR_FARM_ROLE_ID |-> "role-2",
            SCALR_SERVER_HOSTNAME |-> "host-b", SCALR_EXTERNAL_IP |-> "198.51.100.2",
            SCALR_INTERNAL_IP |-> "10.0.0.2", SCALR_SERVER_TYPE |-> "n1-standard-1",
            SCALR_FARM_NAME |-> "farm-2"]]

\* a complete data object: the descriptive values are those of moment v
FullData(id, v, susp) ==
    [k \in {DataKeys[i] : i \in 1..Len(DataKeys)} |->
        IF k = "SCALR_SERVER_ID" THEN id
        ELSE IF k = "SCALR_FARM_ID" THEN "f1"
        ELSE IF k = "SCALR_IS_SUSPEND" THEN susp
        ELSE Described[v][k]]

\* the instant the reconciliation runs are dated at
Fresh == 2 * Window

Good(ev, d) == Signed(SigningKey, EnvelopeText(ev, d), DateText(Fresh))

AllEvents == RecognizedEvents \cup {"FarmLaunched"}

Base == FullData("s1", "a", "0")
BaseBody == EnvelopeText("HostUp", Base)

\* one notification per event name, and the HostDown notifications with the
\* suspend flag "1" and without the flag
EventNotifications ==
    {Good(ev, Base) : ev \in AllEvents}
    \cup {Good("HostDown", FullData("s1", "a", "1")),
          Good("HostDown", Without(Base, "SCALR_IS_SUSPEND"))}

\* notifications that differ in the server and in the descriptive values
ServerNotifications ==
    {Good(ev, FullData(sv[1], sv[2], "0")) :
        ev \in {"HostUp", "IPAddressChanged"},
        sv \in {<<"s1", "a">>, <<"s1", "b">>, <<"s2", "a">>}}

\* authenticated requests whose payload lacks something
Malformed ==
    {Good(ev, Without(Base, k)) :
        ev \in {"HostUp", "FarmLaunched"},
        k \in {"SCALR_SERVER_HOSTNAME", "SCALR_FARM_ID", "SCALR_SERVER_ID"}}
    \cup {Signed(SigningKey, <<"{", "eventName", "HostUp", "}">>, DateText(Fresh)),
          Signed(SigningKey, <<"{", "data", "{", "}", "}">>, DateText(Fresh)),
          Signed(SigningKey, <<"{", "eventName", "HostUp", "data", "none", "}">>, DateText(Fresh)),
          Signed(SigningKey, <<"{", "eventName", "HostUp">>, DateText(Fresh))}

\* requests that lack a header or carry the signature of another key
Unauthenticated ==
    LET date == DateText(Fresh)
    IN  {Request("Date" :> date, BaseBody),
         Request("X-Signature" :> SignatureOf(SigningKey, BaseBody, date), BaseBody),
         Request(EmptyMap, BaseBody),
         Signed(OtherKey, BaseBody, date)}

\* the requests of the concurrent runs
ConcurrentRequests ==
    {Good("HostUp", Base), Good("HostUp", FullData("s2", "a", "0")),
     Good("IPAddressChanged", FullData("s1", "b", "0")),
     Good("HostDown", FullData("s1", "a", "1")),
     Good("FarmLaunched", Base),
     Good("HostUp", Without(Base, "SCALR_SERVER_HOSTNAME")),
     Signed(SigningKey, <<"{", "eventName", "HostUp", "}">>, DateText(Fresh)),
     Signed(SigningKey, <<"{", "eventName", "HostUp">>, DateText(Fresh)),
     Signed(OtherKey, BaseBody, DateText(Fresh))}

\* the requests of the runs that handle one notification at a time
SequentialRequests ==
    ServerNotifications
    \cup {Good("HostDown", FullData("s1", "a", "1")),
          Good("HostUp", Without(Base, "SCALR_SERVER_HOSTNAME"))}

\* the requests of the runs over the event names
EventRequests ==
    EventNotifications \cup {Good("HostUp", Without(Base, "SCALR_SERVER_HOSTNAME"))}

\* the requests of the runs about payload and authentication errors
BoundaryRequests ==
    Malformed \cup Unauthenticated
    \cup {Good(ev, Base) : ev \in {"HostUp", "FarmLaunched", "IPAddressChanged"}}

\* the instants the sender dates its requests at in the runs with a clock
SignedDates == {Fresh - 1, Fresh, Fresh + 1}

\* what the sender signed in those runs
SignedPairs == {<<BaseBody, DateText(d)>> : d \in SignedDates}

\* the requests of the runs with a clock: the sender's own, and what can be
\* made of them without the key
AuthRequests ==
    LET date == DateText(Fresh)
        sig == SignatureOf(SigningKey, BaseBody, date)
    IN  {Signed(SigningKey, BaseBody, DateText(d)) : d \in SignedDates}
        \cup {\* a header removed
              Request("Date" :> date, BaseBody),
              Request("X-Signature" :> sig, BaseBody),
              \* signed with another key
              Signed(OtherKey, BaseBody, date),
              \* the body replaced, the date replaced
              Request(("X-Signature" :> sig) @@ ("Date" :> date),
                      EnvelopeText("HostDown", Base)),
              Request(("X-Signature" :> sig) @@ ("Date" :> DateText(Fresh + Window)),
                      BaseBody),
              \* the weekday moved from the head of the date to the end of the body
              Request(("X-Signature" :> sig) @@ ("Date" :> Tail(date)),
                      BaseBody \o <<date[1]>>),
              \* signed by the sender with a date without zone, with no date
              Signed(SigningKey, BaseBody, ToDigits(Fresh)),
              Signed(SigningKey, BaseBody, <<"soon">>),
              \* signed by the sender, a descriptive key missing
              Good("HostUp", Without(Base, "SCALR_SERVER_HOSTNAME"))}

-----------------------------------------------------------------------------
(* Specifications *)

InFlight(h) == pc[h] \in {"lookup", "write"}

Handle(h) ==
    \/ Lookup(h)
    \/ LookupFails(h)
    \/ MappingFails(h)
    \/ Create(h)
    \/ Update(h)
    \/ WriteFails(h)

Work == \E h \in Handlers : Handle(h)

Init == InitAt(Fresh)

\* handling units run concurrently
Arrive == \E h \in Handlers, r \in ConcurrentRequests : Receive(h, r)
Next == Arrive \/ Work
Spec == Init /\ [][Next]_vars

\* notifications handled one at a time: a request arrives only when no
\* handling unit is between its lookup and its write
Quiet == \A g \in Handlers : ~InFlight(g)

ArriveSeq == Quiet /\ \E h \in Handlers, r \in SequentialRequests : Receive(h, r)
NextSeq == ArriveSeq \/ Work
SpecSeq == Init /\ [][NextSeq]_vars

ArriveEvents ==
    /\ Quiet
    /\ received < MaxEventRequests
    /\ \E h \in Handlers, r \in EventRequests : Receive(h, r)
NextEvents == ArriveEvents \/ Work
SpecEvents == Init /\ [][NextEvents]_vars

ArriveBoundary == Quiet /\ \E h \in Handlers, r \in BoundaryRequests : Receive(h, r)
NextBoundary == ArriveBoundary \/ Work
SpecBoundary == Init /\ [][NextBoundary]_vars

\* requests arrive one at a time while the clock advances
ArriveAuth == Quiet /\ \E h \in Handlers, r \in AuthRequests : Receive(h, r)
NextAuth == ArriveAuth \/ Work \/ Tick
SpecAuth == InitAt(0) /\ [][NextAuth]_vars


-----------------------------------------------------------------------------
(* Properties *)

Ok == Reply(200, "Ok")
Finished(h) == pc[h] = "done"
ServerId(h) == data[h]["SCALR_SERVER_ID"]
RecordsOf(id) == {i \in 1..Len(store) : store[i]["u_id"] = id}
Ops(h) == [i \in 1..Len(calls[h]) |-> calls[h][i].op]

\* C1: the same HostUp notification reconciled twice in a row for an
\* external id without record: the first call looks up nothing and creates
\* one record, the second finds that record and updates it, and the store
\* holds exactly one record of that id.
TwiceInARow(h, g) ==
    /\ Finished(h) /\ Finished(g)
    /\ ticket[g] = ticket[h] + 1
    /\ req[g] = req[h]
    /\ event[h] = "HostUp"
    /\ response[h] = Ok /\ response[g] = Ok
    /\ calls[h][1].found = 0

C1_Idempotent ==
    \A h, g \in Handlers :
        TwiceInARow(h, g) =>
            /\ Ops(h) = <<"get", "post">>
            /\ Ops(g) = <<"get", "patch">>
            /\ calls[g][1].found = 1
            /\ calls[g][2].sys_id = calls[h][2].sys_id
            /\ Cardinality(RecordsOf(ServerId(h))) = 1
            /\ \A i \in RecordsOf(ServerId(h)) : store[i]["sys_id"] = calls[h][2].sys_id

C1_Witness == \E h, g \in Handlers : TwiceInARow(h, g) /\ Len(store) = 1

\* C2: notifications handled one at a time, starting from a store with at
\* most one record per u_id, leave at most one record per u_id.
C2_OnePerId ==
    \A i, j \in 1..Len(store) : store[i]["u_id"] = store[j]["u_id"] => i = j

C2_Witness ==
    /\ received = MaxRequests
    /\ Len(store) = 2
    /\ \E h \in Handlers : Finished(h) /\ Ops(h) = <<"get", "patch">>

\* C3: two handling units that both looked up the same external id, both
\* found nothing and both created, leave two records of that u_id.
BothCreated(h, g) ==
    /\ h # g
    /\ Finished(h) /\ Finished(g)
    /\ Ops(h) = <<"get", "post">> /\ Ops(g) = <<"get", "post">>
    /\ calls[h][1].found = 0 /\ calls[g][1].found = 0
    /\ ServerId(h) = ServerId(g)

C3_RaceDuplicates ==
    \A h, g \in Handlers :
        BothCreated(h, g) =>
            /\ calls[h][2].sys_id # calls[g][2].sys_id
            /\ \A c \in {calls[h][2], calls[g][2]} :
                   \E i \in RecordsOf(ServerId(h)) : store[i]["sys_id"] = c.sys_id
            /\ Cardinality(RecordsOf(ServerId(h))) >= 2

C3_Witness ==
    \E h, g \in Handlers :
        BothCreated(h, g) /\ Cardinality(RecordsOf(ServerId(h))) = 2


HasHeaders(r) == {"X-Signature", "Date"} \subseteq DOMAIN r.headers
SignatureGood(r) ==
    r.headers["X-Signature"] = Hexlify(Hmac(SigningKey, r.body \o r.headers["Date"]))
DateOf(r) == DateutilParse(r.headers["Date"])
DateReadable(r) == DateOf(r).ok /\ DateOf(r).aware
Handled(h) == valid[h] # "none"
Authenticated(h) == valid[h] = "true"

\* a request that carries the sender's signature of pair p = <<body, date>>
CarriesSignatureOf(r, p) ==
    HasHeaders(r) /\ r.headers["X-Signature"] = SignatureOf(SigningKey, p[1], p[2])

AcceptedExactlyWhen(h) ==
    valid[h] = "true" <=>
        /\ HasHeaders(req[h])
        /\ SignatureGood(req[h])
        /\ DateReadable(req[h])
        /\ Abs(at[h] - DateOf(req[h]).secs) < Window

OutsideWindowRejected(h) ==
    (/\ HasHeaders(req[h]) /\ SignatureGood(req[h]) /\ DateReadable(req[h])
     /\ Abs(at[h] - DateOf(req[h]).secs) >= Window)
        => valid[h] = "false"

\* C4 (as amended): validate_request returns true exactly when both headers
\* are present, X-Signature equals hex(HMAC-SHA1(secret, body + Date)) and
\* the Date header is less than 300 seconds from now; a request whose text
\* body + Date differs from the text that was signed, or whose date is 300
\* seconds or more away in either direction, is rejected.
C4_Validate ==
    \A h \in Handlers :
        Handled(h) =>
            /\ AcceptedExactlyWhen(h)
            /\ \A p \in SignedPairs :
                   (/\ CarriesSignatureOf(req[h], p)
                    /\ req[h].body \o req[h].headers["Date"] # p[1] \o p[2])
                       => valid[h] = "false"
            /\ OutsideWindowRejected(h)

\* C4 (as claimed): ... any request whose body or Date header differs from
\* the pair that was signed is rejected.
C4_Original ==
    \A h \in Handlers :
        Handled(h) =>
            /\ AcceptedExactlyWhen(h)
            /\ \A p \in SignedPairs :
                   (/\ CarriesSignatureOf(req[h], p)
                    /\ <<req[h].body, req[h].headers["Date"]>> # p)
                       => valid[h] # "true"
            /\ OutsideWindowRejected(h)

C4_Witness ==
    \E h, g \in Handlers :
        /\ valid[h] = "true"
        /\ Abs(at[h] - DateOf(req[h]).secs) = Window - 1
        /\ valid[g] = "false"
        /\ HasHeaders(req[g]) /\ SignatureGood(req[g]) /\ DateReadable(req[g])
        /\ Abs(at[g] - DateOf(req[g]).secs) = Window

\* a request as the sender signed it, with a date that can be read
FromSender(r) == HasHeaders(r) /\ SignatureGood(r) /\ DateReadable(r)
Arrived(h) == ticket'[h] # ticket[h]

\* C5: the clock never goes back, and a correctly signed request that
\* arrives when now - Date >= 300 (it has left the window) or when
\* Date - now >= 300 (it has not yet come within it) is rejected with 403;
\* whatever was accepted was validated within the window, at or before now.
C5_Replay ==
    /\ [][now' >= now]_vars
    /\ [][\A h \in Handlers :
            (/\ Arrived(h) /\ FromSender(req'[h])
             /\ \/ now - DateOf(req'[h]).secs >= Window
                \/ DateOf(req'[h]).secs - now >= Window)
                => (valid'[h] = "false" /\ response'[h].code = 403 /\ calls'[h] = <<>>)]_vars
    /\ [](\A h \in Handlers :
            valid[h] = "true" =>
                (at[h] <= now /\ Abs(at[h] - DateOf(req[h]).secs) < Window))

C5_Witness ==
    \E h, g \in Handlers :
        /\ req[h] = req[g]
        /\ ticket[h] < ticket[g]
        /\ valid[h] = "true" /\ response[h] = Ok
        /\ valid[g] = "false" /\ response[g].code = 403
        /\ at[g] - DateOf(req[g]).secs >= Window

\* C6: a request without X-Signature, without Date, with a signature that
\* does not match, or with a date outside the window is answered with 403
\* and no store call is made for it.
AuthFails(r, t) ==
    \/ "X-Signature" \notin DOMAIN r.headers
    \/ "Date" \notin DOMAIN r.headers
    \/ ~SignatureGood(r)
    \/ DateReadable(r) /\ Abs(t - DateOf(r).secs) >= Window

C6_Unauthenticated ==
    \A h \in Handlers :
        (Handled(h) /\ AuthFails(req[h], at[h])) =>
            /\ Finished(h)
            /\ response[h].code = 403
            /\ calls[h] = <<>>

C6_Witness ==
    \E h, g \in Handlers :
        /\ Handled(h) /\ "X-Signature" \notin DOMAIN req[h].headers
        /\ response[h].code = 403
        /\ Handled(g) /\ FromSender(req[g])
        /\ Abs(at[g] - DateOf(req[g]).secs) >= Window
        /\ response[g].code = 403
        /\ Len(store) > 0

\* the decoded body of the request of h
Envelope(h) == JsonLoads(req[h].body)
HasEnvelope(h) == Authenticated(h) /\ Envelope(h).ok

\* C7: an authenticated request whose JSON body lacks eventName or data is
\* answered with 404 and no store call is made for it.
C7_MissingEnvelopeKey ==
    \A h \in Handlers :
        (/\ HasEnvelope(h)
         /\ \/ "eventName" \notin DOMAIN Envelope(h).val
            \/ "data" \notin DOMAIN Envelope(h).val)
            => (Finished(h) /\ response[h].code = 404 /\ calls[h] = <<>>)

C7_Witness ==
    \E h, g \in Handlers :
        /\ HasEnvelope(h) /\ DOMAIN Envelope(h).val = {"eventName"}
        /\ response[h].code = 404
        /\ HasEnvelope(g) /\ DOMAIN Envelope(g).val = {"data"}
        /\ response[g].code = 404

HasUnknownEvent(h) ==
    /\ HasEnvelope(h)
    /\ {"eventName", "data"} \subseteq DOMAIN Envelope(h).val
    /\ Envelope(h).val["eventName"].s \notin TenEvents

\* C8: an authenticated request whose eventName is none of the ten
\* recognized names is answered with 200 and an empty body, and no store
\* call is made for it, whatever its data holds.
C8_UnknownEvent ==
    \A h \in Handlers :
        HasUnknownEvent(h) =>
            (Finished(h) /\ response[h] = Reply(200, "") /\ calls[h] = <<>>)

C8_Witness ==
    \E h, g \in Handlers :
        /\ HasUnknownEvent(h)
        /\ "SCALR_SERVER_ID" \notin DOMAIN Envelope(h).val["data"].m
        /\ response[h] = Reply(200, "")
        /\ HasUnknownEvent(g)
        /\ ServerObjectDefined(Envelope(g).val["data"].m)
        /\ response[g] = Reply(200, "")
        /\ Len(store) = 0 /\ received = MaxRequests


Writes(h) == {i \in 1..Len(calls[h]) : calls[h][i].op \in {"post", "patch"}}

\* the store write of h carries status st: a create always names it, an
\* update names it unless it is empty
WriteCarries(h, st) ==
    \A i \in Writes(h) :
        IF calls[h][i].op = "patch" /\ st = ""
        THEN "u_status" \notin DOMAIN calls[h][i].body
        ELSE /\ "u_status" \in DOMAIN calls[h][i].body
             /\ calls[h][i].body["u_status"] = Str(st)

AtWrite(h) == pc[h] = "write" \/ Writes(h) # {}

\* the notification env of h came through: its data is complete and no
\* store call failed
CameThrough(h, env) ==
    /\ Finished(h)
    /\ \A k \in {"SCALR_SERVER_ID", "SCALR_FARM_ID"} : k \in DOMAIN DataOf(env)
    /\ ServerObjectDefined(DataOf(env))
    /\ \A i \in 1..Len(calls[h]) :
           /\ calls[h][i].op \in {"get", "post", "patch"}
           /\ calls[h][i].op = "get" => calls[h][i].found >= 0

StatusWritten(h, st) == status[h] = st /\ WriteCarries(h, st)

DescriptiveFields == DOMAIN FieldSource \ {"u_id"}

\* h completes the store write of an IPAddressChanged notification
AddressChangeWritten(h) ==
    /\ event[h] = "IPAddressChanged"
    /\ pc[h] = "write" /\ pc'[h] = "done"
    /\ response'[h] = Ok

\* C10: an IPAddressChanged notification for an external id with a record
\* sends an update without u_status that sets every descriptive field to the
\* notification's value and leaves the u_status of every record as it was;
\* for an external id without record it creates a record whose u_status is
\* the empty string.
C10_AddressChange ==
    [][\A h \in Handlers :
        AddressChangeWritten(h) =>
            LET call == calls'[h][Len(calls'[h])]
            IN  IF server[h] # None
                THEN /\ call.op = "patch"
                     /\ "u_status" \notin DOMAIN call.body
                     /\ DOMAIN call.body = DescriptiveFields
                     /\ Len(store') = Len(store)
                     /\ \A i \in 1..Len(store) :
                            /\ store'[i]["u_status"] = store[i]["u_status"]
                            /\ store'[i]["u_id"] = store[i]["u_id"]
                            /\ store[i]["sys_id"] = server[h]["sys_id"] =>
                                   \A f \in DescriptiveFields :
                                       store'[i][f] = data[h][FieldSource[f]]
                ELSE /\ call.op = "post"
                     /\ Len(store') = Len(store) + 1
                     /\ SubSeq(store', 1, Len(store)) = store
                     /\ store'[Len(store')]["u_id"] = ServerId(h)
                     /\ store'[Len(store')]["u_status"] = Str("")]_vars

C10_Witness ==
    \E h, g \in Handlers :
        /\ Finished(h) /\ event[h] = "IPAddressChanged" /\ Ops(h) = <<"get", "patch">>
        /\ \E i \in 1..Len(store) :
               /\ store[i]["sys_id"] = calls[h][2].sys_id
               /\ store[i]["u_status"] = Str("running")
               /\ store[i]["u_hostname"] = Str("host-b")
               /\ server[h]["u_hostname"] = Str("host-a")
        /\ Finished(g) /\ event[g] = "IPAddressChanged" /\ Ops(g) = <<"get", "post">>
        /\ \E i \in 1..Len(store) :
               /\ store[i]["sys_id"] = calls[g][2].sys_id
               /\ store[i]["u_status"] = Str("")


\* an update changes a record in place: the records keep their positions,
\* their sys_id and their u_id
IdsKept ==
    /\ Len(store') >= Len(store)
    /\ \A i \in 1..Len(store) :
           /\ store'[i]["sys_id"] = store[i]["sys_id"]
           /\ store'[i]["u_id"] = store[i]["u_id"]

\* C11: every update payload omits u_id and every create payload carries
\* u_id equal to the notification's SCALR_SERVER_ID; the u_id of a stored
\* record never changes after its creation.
C11_IdStable ==
    /\ [](\A h \in Handlers :
            \A i \in Writes(h) :
                LET call == calls[h][i]
                    sent == DataOf(Envelope(h))
                IN  /\ call.op = "patch" => "u_id" \notin DOMAIN call.body
                    /\ call.op = "post" =>
                           /\ "u_id" \in DOMAIN call.body
                           /\ call.body["u_id"] = sent["SCALR_SERVER_ID"])
    /\ [][IdsKept]_vars

C11_Witness ==
    \E h, g \in Handlers :
        /\ Ops(h) = <<"get", "post">> /\ Ops(g) = <<"get", "patch">>
        /\ ServerId(h) = ServerId(g)
        /\ calls[g][2].sys_id = calls[h][2].sys_id
        /\ calls[g][2].body["u_hostname"] # calls[h][2].body["u_hostname"]
        /\ \E i \in 1..Len(store) :
               /\ store[i]["sys_id"] = calls[h][2].sys_id
               /\ store[i]["u_id"] = calls[h][2].body["u_id"]
               /\ store[i]["u_hostname"] = calls[g][2].body["u_hostname"]


\* the four responses the specification lists
ListedResponses(r) ==
    \/ r.code \in {403, 404}
    \/ r = Ok
    \/ r = Reply(200, "")

\* C12 (as claimed): whatever the headers, the body and the behaviour of the
\* store, the response to a request is 403, 404, 200 "Ok" or 200 with an
\* empty body; a correctly signed request whose body is not JSON passes
\* authentication and is then rejected by payload validation.  The code
\* violates it: the ValueError of json.loads, a KeyError on the data and a
\* failure of the store are not caught and end as a server error.
C12_Claimed ==
    \A h \in Handlers :
        (Handled(h) /\ Finished(h)) =>
            /\ ListedResponses(response[h])
            /\ (Authenticated(h) /\ ~Envelope(h).ok) => response[h].code = 404


\* the data keys the handling of event ev reads: the keys of the field
\* mapping, the farm id, and the suspend flag of HostDown
RequiredKeys(ev) ==
    {FieldSource[f] : f \in DOMAIN FieldSource}
        \cup {"SCALR_FARM_ID"}
        \cup (IF ev = "HostDown" THEN {"SCALR_IS_SUSPEND"} ELSE {})

LacksRequiredKey(env) ==
    \E k \in RequiredKeys(EventOf(env)) : k \notin DOMAIN DataOf(env)

\* C13 (as claimed): a recognized-event notification whose data lacks a
\* required key is answered at the boundary with 403 or 404 and never
\* reaches the reconciler: no lookup, create or update is issued.  The code
\* violates it: the missing key raises KeyError (a server error), and for a
\* descriptive key only in server_object, after the lookup was issued.
C13_Claimed ==
    \A h \in Handlers :
        Authenticated(h) =>
            LET env == Envelope(h)
            IN  (IsNotification(env) /\ LacksRequiredKey(env)) =>
                    /\ Finished(h)
                    /\ response[h].code \in {403, 404}
                    /\ calls[h] = <<>>


\* the first of the records of external id `id`, in the order of the store
FirstRecordOf(id) ==
    store[CHOOSE i \in RecordsOf(id) : \A j \in RecordsOf(id) : i <= j]

\* the store answered the call h has just made
Answered(h) ==
    LET call == calls'[h][Len(calls'[h])]
    IN  IF call.op = "get" THEN call.found >= 0 ELSE call.op \in {"post", "patch"}

\* C14: when the lookup returns more than one record, processing continues
\* without error and exactly one update is issued, addressed to the sys_id
\* of the first record returned; the other matching records are neither
\* modified nor deleted.
C14_FirstOfMany ==
    [][\A h \in Handlers :
        /\ (/\ pc[h] = "lookup" /\ pc'[h] # "lookup"
            /\ Cardinality(RecordsOf(ServerId(h))) > 1
            /\ Answered(h)) =>
               /\ pc'[h] = "write"
               /\ calls'[h][1].found = Cardinality(RecordsOf(ServerId(h)))
               /\ server'[h] = FirstRecordOf(ServerId(h))
        /\ (/\ pc[h] = "write" /\ pc'[h] # "write"
            /\ calls[h][1].found > 1
            /\ ~LacksRequiredKey(Envelope(h))
            /\ Answered(h)) =>
               /\ response'[h] = Ok
               /\ Ops(h)' = <<"get", "patch">>
               /\ calls'[h][2].sys_id = server[h]["sys_id"]
               /\ Len(store') = Len(store)
               /\ \A i \in 1..Len(store) :
                      store[i]["sys_id"] # server[h]["sys_id"] => store'[i] = store[i]]_vars

C14_Witness ==
    \E h \in Handlers :
        /\ Finished(h) /\ response[h] = Ok
        /\ Ops(h) = <<"get", "patch">> /\ calls[h][1].found = 2
        /\ \E i, j \in RecordsOf(ServerId(h)) :
               /\ i < j
               /\ store[i]["sys_id"] = calls[h][2].sys_id
               /\ store[i]["u_hostname"] = calls[h][2].body["u_hostname"]
               /\ store[j]["u_hostname"] # store[i]["u_hostname"]


\* the store calls of a handling, in the order the claim states: nothing
\* before the lookup, the lookup alone before the write, and at the end the
\* lookup followed by the one write its answer calls for, cut short where a
\* call failed
CallsInOrder(h) ==
    LET ops == Ops(h)
    IN  CASE pc[h] = "lookup" -> ops = <<>>
          [] pc[h] = "write" -> ops = <<"get">> /\ calls[h][1].found >= 0
          [] pc[h] = "done" ->
                \/ ops = <<"get">> /\ calls[h][1].found = -1
                \/ ops \in {<<"get", "post">>, <<"get", "post-failed">>}
                       /\ calls[h][1].found = 0
                \/ ops \in {<<"get", "patch">>, <<"get", "patch-failed">>}
                       /\ calls[h][1].found >= 1
          [] OTHER -> TRUE

\* C15 (as claimed): for each accepted recognized-event notification the
\* handler issues exactly one lookup, then exactly one write, a create when
\* the lookup returned no record and an update otherwise, never both; when a
\* store call fails no further store call is made.  The code violates it for
\* a notification whose data lacks a key: it is accepted, and the handling
\* ends after the lookup, or before it, without any write.
C15_Claimed ==
    \A h \in Handlers :
        (Authenticated(h) /\ IsNotification(Envelope(h))) => CallsInOrder(h)


\* the value a notification carries for a descriptive field of the record
CarriedValue(sent, f) ==
    CASE f = "u_environment_id" -> sent["SCALR_ENV_ID"]
      [] f = "u_account_id" -> sent["SCALR_ACCOUNT_ID"]
      [] f = "u_cloud_platform" -> sent["SCALR_CLOUD_PLATFORM"]
      [] f = "u_cloud_location" -> sent["SCALR_CLOUD_LOCATION"]
      [] f = "u_farm_role_alias" -> sent["SCALR_FARM_ROLE_ALIAS"]
      [] f = "u_farm_role_id" -> sent["SCALR_FARM_ROLE_ID"]
      [] f = "u_hostname" -> sent["SCALR_SERVER_HOSTNAME"]
      [] f = "u_public_ip" -> sent["SCALR_EXTERNAL_IP"]
      [] f = "u_private_ip" -> sent["SCALR_INTERNAL_IP"]
      [] f = "u_instance_type" -> sent["SCALR_SERVER_TYPE"]
      [] f = "u_farm" -> sent["SCALR_FARM_NAME"]

\* h completes a successful reconcile against the record it found
UpdatedExisting(h) ==
    /\ pc[h] = "write" /\ pc'[h] = "done"
    /\ server[h] # None
    /\ response'[h] = Ok

\* C16: after a successful reconcile of a recognized-event notification
\* against an existing record, every descriptive field of that record equals
\* the value carried by the notification, whatever the record held before.
C16_Refreshed ==
    [][\A h \in Handlers :
        UpdatedExisting(h) =>
            LET sent == DataOf(Envelope(h))
            IN  \A i \in 1..Len(store) :
                    store[i]["sys_id"] = server[h]["sys_id"] =>
                        \A f \in DescriptiveFields :
                            store'[i][f] = CarriedValue(sent, f)]_vars

C16_Witness ==
    \E h \in Handlers :
        /\ Finished(h) /\ response[h] = Ok /\ Ops(h) = <<"get", "patch">>
        /\ \E i \in 1..Len(store) :
               /\ store[i]["sys_id"] = server[h]["sys_id"]
               /\ \A f \in DescriptiveFields :
                      /\ store[i][f] # server[h][f]
                      /\ store[i][f] = CarriedValue(DataOf(Envelope(h)), f)
               /\ Cardinality({store[i][f] : f \in DescriptiveFields}) = 11


\* every record's u_status is the status m holds for the record's u_id
StatusFollows(m) ==
    \A i \in 1..Len(store) :
        /\ store[i]["u_id"] \in DOMAIN m
        /\ store[i]["u_status"] = Str(m[store[i]["u_id"]])

\* C17 (as amended): with the notifications handled one at a time starting
\* from no record, the u_status of the record of an external id is the
\* status classified for the most recent notification other than
\* IPAddressChanged among those reconciled successfully (answered 200 "Ok")
\* for that id, and the empty default when all of them were
\* IPAddressChanged; a notification whose handling failed leaves it as it
\* was.
C17_LastStatus ==
    /\ StatusFollows(seen.written)
    /\ \A id \in DOMAIN seen.written : RecordsOf(id) # {}

\* C17 (as claimed): ... the status classified for the most recent
\* notification in the sequence that is not IPAddressChanged.
C17_Original ==
    Quiet => StatusFollows(seen.latest)

C17_Witness ==
    \E h, g \in Handlers :
        /\ received = 3 /\ Quiet
        /\ ticket[g] = 2 /\ event[g] = "HostUp" /\ Ops(g) = <<"get", "patch">>
        /\ server[g]["u_status"] = Str("")
        /\ ticket[h] = 3 /\ event[h] = "IPAddressChanged" /\ Ops(h) = <<"get", "patch">>
        /\ ServerId(h) = ServerId(g)
        /\ seen.written[ServerId(h)] = "running"
        /\ \A i \in RecordsOf(ServerId(h)) : store[i]["u_status"] = Str("running")
        /\ RecordsOf(ServerId(h)) # {}


\* the data of notification env lacks a key the field mapping or the status
\* classification reads
LacksMappedKey(env) ==
    \E k \in RequiredKeys(EventOf(env)) \ {"SCALR_FARM_ID"} : k \notin DOMAIN DataOf(env)

\* handling unit h holds such a notification
HoldsIncomplete(h) ==
    /\ Authenticated(h)
    /\ LET env == Envelope(h)
       IN  IsNotification(env) /\ LacksMappedKey(env)

\* h takes a step of the handling of the request it holds
Steps(h) == ticket'[h] = ticket[h] /\ <<pc[h], calls[h]>>' # <<pc[h], calls[h]>>

\* C18: a recognized-event notification whose data lacks a key needed by the
\* field mapping or the status classification never causes a store write:
\* the handler fails before the create or update is issued, and the records
\* of the store are unchanged by that notification.
C18_NoWrite ==
    /\ [](\A h \in Handlers :
            HoldsIncomplete(h) =>
                /\ \A i \in 1..Len(calls[h]) : calls[h][i].op = "get"
                /\ Finished(h) => response[h] = ServerError)
    /\ [][\A h \in Handlers :
            (Steps(h) /\ HoldsIncomplete(h)) => store' = store]_vars

C18_Witness ==
    \E h, g \in Handlers :
        /\ Finished(g) /\ response[g] = Ok /\ Ops(g) = <<"get", "post">>
        /\ HoldsIncomplete(h) /\ Finished(h) /\ response[h] = ServerError
        /\ "SCALR_SERVER_HOSTNAME" \notin DOMAIN DataOf(Envelope(h))
        /\ Ops(h) = <<"get">> /\ calls[h][1].found = 1
        /\ Len(store) = 1
        /\ Without(store[1], "sys_id") = calls[g][2].body


\* the positions of the store a step wrote: a record added or changed
Touched == {i \in 1..Len(store') : i > Len(store) \/ store'[i] # store[i]}

\* record i was written by the step of a handling unit that handles a
\* notification for that record's u_id: it is new and the lookup had found
\* nothing, or it is the record the lookup returned
WrittenFor(i) ==
    \E h \in Handlers :
        /\ pc[h] = "write" /\ Steps(h)
        /\ store'[i]["u_id"] = DataOf(Envelope(h))["SCALR_SERVER_ID"]
        /\ IF i > Len(store)
           THEN server[h] = None
           ELSE server[h] # None /\ store[i]["sys_id"] = server[h]["sys_id"]

\* the lookup hands on the first record of the id, or None
LookupGivesFirst(h) ==
    (pc[h] = "lookup" /\ pc'[h] = "write") =>
        server'[h] = IF RecordsOf(ServerId(h)) = {} THEN None
                     ELSE FirstRecordOf(ServerId(h))

\* C19: handling one notification for external id X changes at most one
\* record of the store, and that record has u_id X (newly created, or the
\* first match of the lookup); every record with another u_id is left
\* unchanged and no record is ever deleted: the number of records never
\* decreases and grows by at most one per notification.
C19_Frame ==
    /\ [](\A h \in Handlers : Cardinality(Writes(h)) <= 1)
    /\ [][/\ Len(store') \in {Len(store), Len(store) + 1}
          /\ \A i \in 1..Len(store) : store'[i]["sys_id"] = store[i]["sys_id"]
          /\ Cardinality(Touched) <= 1
          /\ \A i \in Touched : WrittenFor(i)
          /\ \A h \in Handlers : LookupGivesFirst(h)]_vars

C19_Witness ==
    \E h, g \in Handlers :
        /\ Finished(h) /\ response[h] = Ok /\ Ops(h) = <<"get", "patch">>
        /\ Finished(g) /\ response[g] = Ok /\ Ops(g) = <<"get", "post">>
        /\ ServerId(g) # ServerId(h)
        /\ Len(store) = 2
        /\ \E i, j \in 1..Len(store) :
               /\ store[i]["sys_id"] = calls[h][2].sys_id
               /\ store[i]["u_id"] = ServerId(h)
               /\ store[i]["u_hostname"] # server[h]["u_hostname"]
               /\ store[j]["u_id"] = ServerId(g)
               /\ Without(store[j], "sys_id") = calls[g][2].body
               /\ store[j]["u_hostname"] # store[i]["u_hostname"]

=============================================================================
